---- MODULE Spec2Model ----
(***************************************************************************)
(* SimpleVector<Type> (simple_vector.h) over ArrayPtr<Type> (array_ptr.h). *)
(*                                                                         *)
(* The heap is a map from block addresses to blocks; a block is live or    *)
(* free and, while live, holds its slots.  An array object is the triple   *)
(* items_ (address of the owned block, NULL for nullptr), size_,           *)
(* capacity_.  Each public operation of SimpleVector is one action; the    *)
(* temporaries a handler creates (arr_tmp, tmp) are created and destroyed  *)
(* inside the action.                                                      *)
(*                                                                         *)
(* Spec exercises one array, SpecPair two arrays (copy, move, swap,        *)
(* comparison, failing allocation), SpecRef one array whose PushBack and   *)
(* Insert arguments are its own elements, and SpecPtr two ArrayPtr objects *)
(* used on their own.                                                      *)
(***************************************************************************)
EXTENDS Integers, Sequences, FiniteSets, TLC

\* ---------------------------------------------------------------- bounds
\* Largest capacity an operation may produce when one array is exercised
\* (Spec), and the most slots two arrays may hold together when two are
\* (SpecPair).
MaxCap == 5
MaxPairCap == 2
\* Largest capacity when an array is given its own elements as arguments
\* (SpecRef).
MaxRefCap == 4
\* Largest block a stand-alone ArrayPtr is constructed with (SpecPtr).
MaxPtrLen == 2
\* Number of heap addresses: two arrays and one temporary.
NumBlocks == 3

\* ---------------------------------------------------------------- domains
\* Sample of the element type; Default is Type{}.
Default == 0
Values == {0, 1}
\* What a moved-from element holds afterwards: its old value (trivially
\* copyable types) or the default value (types that hand over their content).
MoveKinds == {"keep", "reset"}
\* The two Insert overloads: by const reference (std::copy_backward), and by
\* rvalue (std::move_backward, of elements that hand over their content).
Hows == {"copy", "reset"}

NULL == 0
Blocks == 1..NumBlocks
Addrs == 0..NumBlocks
Vecs == {"a", "b"}
\* ArrayPtr objects used on their own, outside a SimpleVector.
Ptrs == {"p", "q"}

VARIABLES heap, vec, last, ptr

vars == <<heap, vec, last, ptr>>

Max(x, y) == IF x >= y THEN x ELSE y

\* ---------------------------------------------------------------- heap
FreeBlock == [st |-> "free", data |-> <<>>]

\* The address operator new[] hands out: a block that is not live.
NewAddr(h) == CHOOSE b \in Blocks : h[b].st # "live" /\ \A c \in Blocks : h[c].st # "live" => b <= c

\* Variant: a block one slot short.
NewArrayShort(h, b, n) == [h EXCEPT ![b] = [st |-> "live", data |-> [k \in 1..(n - 1) |-> Default]]]

\* new Type[n]{} : n value-initialised slots.
NewArray(h, b, n) == [h EXCEPT ![b] = [st |-> "live", data |-> [k \in 1..n |-> Default]]]

\* delete[] p : nullptr is a no-op, a live block becomes free, anything else
\* is a double or invalid deallocation and is recorded as "bad".
DeleteArray(h, p) ==
    IF p = NULL THEN h
    ELSE IF h[p].st = "live" THEN [h EXCEPT ![p] = FreeBlock]
    ELSE [h EXCEPT ![p] = [st |-> "bad", data |-> <<>>]]

\* A slot that may be read or written: index i (from 0) of a live block.
ValidSlot(h, p, i) == p # NULL /\ h[p].st = "live" /\ i >= 0 /\ i < Len(h[p].data)

\* An access outside a live block: recorded on the block (address 0, nullptr,
\* is kept in the heap map for this purpose only).
Fault(h, p) == [h EXCEPT ![p] = [st |-> "bad", data |-> <<>>]]

Load(h, p, i) == h[p].data[i + 1]

Store(h, p, i, x) ==
    IF ValidSlot(h, p, i) THEN [h EXCEPT ![p].data[i + 1] = x] ELSE Fault(h, p)

\* ---------------------------------------------------------------- <algorithm>
MovedFrom(x, mk) == IF mk = "keep" THEN x ELSE Default

\* One element transfer *d = std::move(*s) (mk = "copy": *d = *s).
MoveSlot(h, sp, si, dp, di, mk) ==
    IF ~ValidSlot(h, sp, si) THEN Fault(h, sp)
    ELSE IF ~ValidSlot(h, dp, di) THEN Fault(h, dp)
    ELSE IF sp = dp /\ si = di THEN h
    ELSE LET x == Load(h, sp, si)
             h1 == [h EXCEPT ![dp].data[di + 1] = x]
         IN  IF mk = "copy" THEN h1 ELSE [h1 EXCEPT ![sp].data[si + 1] = MovedFrom(x, mk)]

\* std::copy / std::move(first, last, d_first): front to back.
RECURSIVE StdMove(_, _, _, _, _, _, _)
StdMove(h, sp, first, last_, dp, dfirst, mk) ==
    IF first >= last_ THEN h
    ELSE StdMove(MoveSlot(h, sp, first, dp, dfirst, mk), sp, first + 1, last_, dp, dfirst + 1, mk)

\* Variant: the shift done front to back, so that overlapping ranges are
\* overwritten before they are read.
StdMoveFrontFirst(h, sp, first, last_, dp, dlast, mk) ==
    StdMove(h, sp, first, last_, dp, dlast - (last_ - first), mk)

\* std::copy_backward / std::move_backward(first, last, d_last): back to front.
RECURSIVE StdMoveBackward(_, _, _, _, _, _, _)
StdMoveBackward(h, sp, first, last_, dp, dlast, mk) ==
    IF first >= last_ THEN h
    ELSE StdMoveBackward(MoveSlot(h, sp, last_ - 1, dp, dlast - 1, mk), sp, first, last_ - 1, dp, dlast - 1, mk)

\* std::fill(first, last, x) and the loop of Resize that assigns Type{}.
RECURSIVE StdFill(_, _, _, _, _)
StdFill(h, p, first, last_, x) ==
    IF first >= last_ THEN h
    ELSE StdFill(Store(h, p, first, x), p, first + 1, last_, x)

\* std::copy(init.begin(), init.end(), d_first) from an initializer list.
RECURSIVE CopyList(_, _, _, _)
CopyList(h, init, p, k) ==
    IF k > Len(init) THEN h
    ELSE CopyList(Store(h, p, k - 1, init[k]), init, p, k + 1)

\* std::equal(first1, last1, first2, last2) on random-access ranges: ranges
\* of different lengths are unequal, otherwise the elements are compared in
\* order.
RECURSIVE StdEqual(_, _, _, _, _, _, _)
StdEqual(h, p1, first1, last1, p2, first2, last2) ==
    IF last1 - first1 # last2 - first2 THEN FALSE
    ELSE IF first1 >= last1 THEN TRUE
    ELSE /\ ValidSlot(h, p1, first1) /\ ValidSlot(h, p2, first2)
         /\ Load(h, p1, first1) = Load(h, p2, first2)
         /\ StdEqual(h, p1, first1 + 1, last1, p2, first2 + 1, last2)

\* ---------------------------------------------------------------- ArrayPtr
\* ArrayPtr(size_t size): the pair <heap, raw_ptr_>.
ArrayPtrNew(h, n) ==
    IF n > 0 THEN LET b == NewAddr(h) IN [h |-> NewArray(h, b, n), p |-> b]
    ELSE [h |-> h, p |-> NULL]

\* Variant: the block owned before a move assignment is not deleted.
ArrayPtrMoveAssignLeak(h, mine) == h

\* ArrayPtr& operator=(ArrayPtr&& other): the heap afterwards; this->raw_ptr_
\* becomes other's pointer and other's becomes nullptr.
ArrayPtrMoveAssignHeap(h, mine) == IF mine # NULL THEN DeleteArray(h, mine) ELSE h

\* Variant: a destructor that does not delete.
ArrayPtrDtorLeak(h, p) == h

\* ~ArrayPtr()
ArrayPtrDtor(h, p) == DeleteArray(h, p)

\* An ArrayPtr object; alive is FALSE before construction and after
\* destruction.
NoArrayPtr == [alive |-> FALSE, raw_ptr_ |-> NULL]
MkArrayPtr(p) == [alive |-> TRUE, raw_ptr_ |-> p]

\* ---------------------------------------------------------------- SimpleVector
\* A SimpleVector object; alive is FALSE before construction and after
\* destruction.
NoVec == [alive |-> FALSE, items_ |-> NULL, size_ |-> 0, capacity_ |-> 0]
MkVec(p, s, c) == [alive |-> TRUE, items_ |-> p, size_ |-> s, capacity_ |-> c]

\* Variant: growth to exactly the requested size.
NewCapacityExact(new_size, capacity_) == new_size

\* void Resize(size_t new_size) on the object s: the pair <heap, object>.
NewCapacity(new_size, capacity_) == Max(new_size, IF capacity_ = 0 THEN 1 ELSE capacity_ * 2)

\* Variant: the slots exposed within the capacity are not reset.
ResizeNoFill_(h, s, new_size) ==
    IF new_size > s.capacity_ THEN
        LET new_capacity == NewCapacity(new_size, s.capacity_)
            arr_tmp == ArrayPtrNew(h, new_capacity)
            h1 == StdMove(arr_tmp.h, s.items_, 0, s.size_, arr_tmp.p, 0, "reset")
        IN  [h |-> ArrayPtrDtor(h1, s.items_), s |-> MkVec(arr_tmp.p, new_size, new_capacity)]
    ELSE [h |-> h, s |-> [s EXCEPT !.size_ = new_size]]

\* (The elements std::move leaves behind in the old block die with it.)
Resize_(h, s, new_size) ==
    IF new_size > s.capacity_ THEN
        LET new_capacity == NewCapacity(new_size, s.capacity_)
            arr_tmp == ArrayPtrNew(h, new_capacity)
            h1 == StdMove(arr_tmp.h, s.items_, 0, s.size_, arr_tmp.p, 0, "reset")
        IN  [h |-> ArrayPtrDtor(h1, s.items_), s |-> MkVec(arr_tmp.p, new_size, new_capacity)]
    ELSE IF new_size > s.size_ THEN
        [h |-> StdFill(h, s.items_, s.size_, new_size, Default), s |-> [s EXCEPT !.size_ = new_size]]
    ELSE [h |-> h, s |-> [s EXCEPT !.size_ = new_size]]

\* Variant: Reserve follows the growth policy of Resize.
ReserveDoubling_(h, s, new_capacity) ==
    IF s.capacity_ < new_capacity THEN
        LET cap == NewCapacity(new_capacity, s.capacity_)
            arr_tmp == ArrayPtrNew(h, cap)
            h1 == StdMove(arr_tmp.h, s.items_, 0, s.size_, arr_tmp.p, 0, "reset")
        IN  [h |-> ArrayPtrDtor(h1, s.items_), s |-> MkVec(arr_tmp.p, s.size_, cap)]
    ELSE [h |-> h, s |-> s]

\* void Reserve(size_t new_capacity)
Reserve_(h, s, new_capacity) ==
    IF s.capacity_ < new_capacity THEN
        LET arr_tmp == ArrayPtrNew(h, new_capacity)
            h1 == StdMove(arr_tmp.h, s.items_, 0, s.size_, arr_tmp.p, 0, "reset")
        IN  [h |-> ArrayPtrDtor(h1, s.items_), s |-> MkVec(arr_tmp.p, s.size_, new_capacity)]
    ELSE [h |-> h, s |-> s]

\* Variant: the size is incremented without the capacity test.
CheckCapacityNoGrow(h, s) == [h |-> h, s |-> [s EXCEPT !.size_ = s.size_ + 1]]

\* void CheckCapacityAndResize()
CheckCapacityAndResize(h, s) ==
    IF s.size_ >= s.capacity_ THEN Resize_(h, s, s.size_ + 1)
    ELSE [h |-> h, s |-> [s EXCEPT !.size_ = s.size_ + 1]]

\* void PushBack(const Type& item) / PushBack(Type&& item)
PushBack_(h, s, item) ==
    LET r == CheckCapacityAndResize(h, s)
    IN  [h |-> Store(r.h, r.s.items_, r.s.size_ - 1, item), s |-> r.s]

\* Variant: PopBack empties the array.
PopBackClear_(h, s) == [h |-> h, s |-> [s EXCEPT !.size_ = 0]]

\* void PopBack() noexcept
PopBack_(h, s) == [h |-> h, s |-> [s EXCEPT !.size_ = s.size_ - 1]]

\* A position in a buffer: an address and an index.
Ptr(p, i) == [p |-> p, i |-> i]
NoPtr == Ptr(NULL, 0)

\* Variant: the iterator std::copy_backward returns is used as it is (no --it).
InsertNoDec_(h, s, i, value, how) ==
    IF i = s.size_ THEN
        LET r == PushBack_(h, s, value)
        IN  [h |-> r.h, s |-> r.s, ret |-> Ptr(r.s.items_, r.s.size_ - 1)]
    ELSE
        LET r == CheckCapacityAndResize(h, s)
            end_ == r.s.size_
            h1 == StdMoveBackward(r.h, r.s.items_, i, end_ - 1, r.s.items_, end_, how)
            it == end_ - (end_ - 1 - i)
        IN  [h |-> Store(h1, r.s.items_, it, value), s |-> r.s, ret |-> Ptr(r.s.items_, it)]

\* Iterator Insert(ConstIterator pos, const Type& value) (how = "copy":
\* std::copy_backward) and Insert(ConstIterator pos, Type&& value) (how is the
\* element type's move kind: std::move_backward), pos = begin() + i.
Insert_(h, s, i, value, how) ==
    IF i = s.size_ THEN
        LET r == PushBack_(h, s, value)
        IN  [h |-> r.h, s |-> r.s, ret |-> Ptr(r.s.items_, r.s.size_ - 1)]
    ELSE
        LET curr_index == i
            r == CheckCapacityAndResize(h, s)
            end_ == r.s.size_
            h1 == StdMoveBackward(r.h, r.s.items_, curr_index, end_ - 1, r.s.items_, end_, how)
            it == (end_ - (end_ - 1 - curr_index)) - 1
        IN  [h |-> Store(h1, r.s.items_, it, value), s |-> r.s, ret |-> Ptr(r.s.items_, it)]

\* A read through the reference ref: the content of the slot while its block
\* is allocated; once the block has been deallocated the reference dangles,
\* the read is undefined and yields junk, any value.
ReadRef(h, ref, junk) == IF ValidSlot(h, ref.p, ref.i) THEN Load(h, ref.p, ref.i) ELSE junk

\* PushBack(const Type& item) with item a reference to items_[j]: item is read
\* after CheckCapacityAndResize has run.
PushBackRef_(h, s, j, junk) ==
    LET item == Ptr(s.items_, j)
        r == CheckCapacityAndResize(h, s)
    IN  [h |-> Store(r.h, r.s.items_, r.s.size_ - 1, ReadRef(r.h, item, junk)), s |-> r.s]

\* Insert(ConstIterator pos, const Type& value) with value a reference to
\* items_[j]: value is read after CheckCapacityAndResize and
\* std::copy_backward have run.
InsertRef_(h, s, i, j, junk) ==
    IF i = s.size_ THEN
        LET r == PushBackRef_(h, s, j, junk)
        IN  [h |-> r.h, s |-> r.s, ret |-> Ptr(r.s.items_, r.s.size_ - 1)]
    ELSE
        LET value == Ptr(s.items_, j)
            curr_index == i
            r == CheckCapacityAndResize(h, s)
            end_ == r.s.size_
            h1 == StdMoveBackward(r.h, r.s.items_, curr_index, end_ - 1, r.s.items_, end_, "copy")
            it == (end_ - (end_ - 1 - curr_index)) - 1
        IN  [h |-> Store(h1, r.s.items_, it, ReadRef(h1, value, junk)), s |-> r.s, ret |-> Ptr(r.s.items_, it)]

\* Variant: the shift stops one element early (end() - 1 for end()).
EraseShort_(h, s, i, mk) ==
    LET h1 == IF i < s.size_ - 1
              THEN StdMove(h, s.items_, i + 1, s.size_ - 1, s.items_, i, mk)
              ELSE h
    IN  [h |-> h1, s |-> [s EXCEPT !.size_ = s.size_ - 1], ret |-> Ptr(s.items_, i)]

\* Iterator Erase(ConstIterator pos), pos = begin() + i.
Erase_(h, s, i, mk) ==
    LET curr_index == i
        h1 == IF i < s.size_ - 1
              THEN StdMove(h, s.items_, curr_index + 1, s.size_, s.items_, curr_index, mk)
              ELSE h
    IN  [h |-> h1, s |-> [s EXCEPT !.size_ = s.size_ - 1], ret |-> Ptr(s.items_, curr_index)]

\* Variant: the index equal to the size is let through.
AtOffByOne_(s, index) ==
    IF index > s.size_ THEN [thrown |-> "out_of_range", ret |-> NoPtr]
    ELSE [thrown |-> "", ret |-> Ptr(s.items_, index)]

\* Type& At(size_t index) / const Type& At(size_t index) const: the exception
\* thrown, if any, and the reference items_[index] returned.
At_(s, index) ==
    IF index >= s.size_ THEN [thrown |-> "out_of_range", ret |-> NoPtr]
    ELSE [thrown |-> "", ret |-> Ptr(s.items_, index)]

\* Variant: a member-wise copy, which shares the block.
CopyCtorShallow_(h, other) == [h |-> h, s |-> other]

\* SimpleVector(const SimpleVector& other): the pair <heap, new object>.
CopyCtor_(h, other) ==
    LET items == ArrayPtrNew(h, other.capacity_)
    IN  [h |-> StdMove(items.h, other.items_, 0, other.size_, items.p, 0, "copy"),
         s |-> MkVec(items.p, other.size_, other.capacity_)]

\* Variant: the whole buffers, up to the capacities, are compared.
EqualBuffers_(h, lhs, rhs) ==
    StdEqual(h, lhs.items_, 0, lhs.capacity_, rhs.items_, 0, rhs.capacity_)

\* bool operator==(const SimpleVector& lhs, const SimpleVector& rhs)
Equal_(h, lhs, rhs) ==
    StdEqual(h, lhs.items_, 0, lhs.size_, rhs.items_, 0, rhs.size_)

\* ---------------------------------------------------------------- std::bad_alloc
\* The same member functions when operator new[] throws std::bad_alloc in
\* ArrayPtr(size_t): the statements before the allocation have run, those
\* after it have not.  The result is <heap, object, exception thrown>; a
\* call that does not allocate ends as usual.
Thrown(r, e) == [h |-> r.h, s |-> r.s, thrown |-> e]

\* Resize: ArrayPtr<Type> arr_tmp(new_capacity) throws.
ResizeThrow_(h, s, new_size) ==
    IF new_size > s.capacity_ THEN [h |-> h, s |-> s, thrown |-> "bad_alloc"]
    ELSE Thrown(Resize_(h, s, new_size), "")

\* Reserve: ArrayPtr<Type> arr_tmp(new_capacity) throws.
ReserveThrow_(h, s, new_capacity) ==
    IF s.capacity_ < new_capacity THEN [h |-> h, s |-> s, thrown |-> "bad_alloc"]
    ELSE Thrown(Reserve_(h, s, new_capacity), "")

\* Variant: the size is counted up before the capacity is tested
\* (++size_; if (size_ > capacity_) Resize(size_)).
CheckCapacityCountFirstThrow(h, s) ==
    LET s1 == [s EXCEPT !.size_ = s.size_ + 1]
    IN  IF s1.size_ > s1.capacity_ THEN ResizeThrow_(h, s1, s1.size_)
        ELSE [h |-> h, s |-> s1, thrown |-> ""]

CheckCapacityAndResizeThrow(h, s) ==
    IF s.size_ >= s.capacity_ THEN ResizeThrow_(h, s, s.size_ + 1)
    ELSE [h |-> h, s |-> [s EXCEPT !.size_ = s.size_ + 1], thrown |-> ""]

PushBackThrow_(h, s, item) ==
    LET r == CheckCapacityAndResizeThrow(h, s)
    IN  IF r.thrown # "" THEN r
        ELSE [h |-> Store(r.h, r.s.items_, r.s.size_ - 1, item), s |-> r.s, thrown |-> ""]

InsertThrow_(h, s, i, value, how) ==
    IF i = s.size_ THEN PushBackThrow_(h, s, value)
    ELSE LET r == CheckCapacityAndResizeThrow(h, s)
         IN  IF r.thrown # "" THEN r ELSE Thrown(Insert_(h, s, i, value, how), "")

\* SimpleVector(const SimpleVector& other): items_(other.GetCapacity())
\* throws and no object is constructed.
CopyCtorThrow_(h, other) ==
    IF other.capacity_ > 0 THEN [h |-> h, s |-> NoVec, thrown |-> "bad_alloc"]
    ELSE Thrown(CopyCtor_(h, other), "")

\* operator=(const SimpleVector&): SimpleVector<Type> tmp{ rhs } throws
\* before swap(tmp).
CopyAssignThrow_(h, s, rhs) ==
    LET tmp == CopyCtorThrow_(h, rhs)
    IN  IF tmp.thrown # "" THEN [h |-> tmp.h, s |-> s, thrown |-> tmp.thrown]
        ELSE [h |-> ArrayPtrDtor(tmp.h, s.items_), s |-> tmp.s, thrown |-> ""]

\* ---------------------------------------------------------------- state
\* The live elements [begin(), end()) of an object.
Elems(h, s) == [k \in 1..s.size_ |-> IF ValidSlot(h, s.items_, k - 1) THEN Load(h, s.items_, k - 1) ELSE "?"]
ElemsOf(v) == Elems(heap, vec[v])

\* The last operation: its name, the branch of the code it took and the
\* iterator it returned.
Op(op, kind, ret) == [op |-> op, kind |-> kind, ret |-> ret]

ListsUpTo(n) == UNION {[1..k -> Values] : k \in 0..n}

Init ==
    /\ heap = [p \in Addrs |-> FreeBlock]
    /\ vec = [v \in Vecs |-> NoVec]
    /\ last = Op("Init", "", NoPtr)
    /\ ptr = [q \in Ptrs |-> NoArrayPtr]

\* The common end of an operation on one object.
Commit(v, h, s, l) ==
    /\ vec' = [vec EXCEPT ![v] = s]
    /\ heap' = h
    /\ last' = l
    /\ ptr' = ptr

\* SimpleVector() noexcept = default
Ctor(v) ==
    /\ ~vec[v].alive
    /\ Commit(v, heap, MkVec(NULL, 0, 0), Op("Ctor", "", NoPtr))

\* explicit SimpleVector(size_t size)
CtorSize(v, size) ==
    /\ ~vec[v].alive
    /\ LET items == ArrayPtrNew(heap, size)
       IN  Commit(v, items.h, MkVec(items.p, size, size), Op("CtorSize", "", NoPtr))

\* SimpleVector(size_t size, const Type& value)
CtorFill(v, size, value) ==
    /\ ~vec[v].alive
    /\ LET items == ArrayPtrNew(heap, size)
           h1 == IF size = 0 THEN items.h ELSE StdFill(items.h, items.p, 0, size, value)
       IN  Commit(v, h1, MkVec(items.p, size, size), Op("CtorFill", "", NoPtr))

\* SimpleVector(std::initializer_list<Type> init)
CtorList(v, init) ==
    /\ ~vec[v].alive
    /\ LET items == ArrayPtrNew(heap, Len(init))
       IN  Commit(v, CopyList(items.h, init, items.p, 1), MkVec(items.p, Len(init), Len(init)),
                  Op("CtorList", "", NoPtr))

\* Variant: the request is taken for a size, as by SimpleVector(size_t).
CtorReserveAsSize(v, n) ==
    /\ ~vec[v].alive
    /\ LET items == ArrayPtrNew(heap, n)
       IN  Commit(v, items.h, MkVec(items.p, n, n), Op("CtorReserve", "", NoPtr))

\* SimpleVector(ReserveProxyObj rhs)
CtorReserve(v, n) ==
    /\ ~vec[v].alive
    /\ LET r == Reserve_(heap, MkVec(NULL, 0, 0), n)
       IN  Commit(v, r.h, r.s, Op("CtorReserve", "", NoPtr))

\* SimpleVector(const SimpleVector& other)
CtorCopy(v, o) ==
    /\ ~vec[v].alive /\ vec[o].alive
    /\ LET r == CopyCtor_(heap, vec[o])
       IN  Commit(v, r.h, r.s, Op("CtorCopy", "", NoPtr))

\* SimpleVector(SimpleVector&& other): items_ starts as nullptr and is
\* move-assigned from other.items_.
CtorMove(v, o) ==
    /\ ~vec[v].alive /\ vec[o].alive
    /\ heap' = ArrayPtrMoveAssignHeap(heap, NULL)
    /\ vec' = [vec EXCEPT ![v] = MkVec(vec[o].items_, vec[o].size_, vec[o].capacity_),
                          ![o] = MkVec(NULL, 0, 0)]
    /\ last' = Op("CtorMove", "", NoPtr)
    /\ ptr' = ptr

\* SimpleVector& operator=(const SimpleVector& rhs): copy into tmp, swap,
\* destroy tmp (which now holds the old block).
CopyAssign(v, o) ==
    /\ vec[v].alive /\ vec[o].alive
    /\ ptr' = ptr
    /\ IF v = o THEN
           /\ UNCHANGED <<heap, vec>>
           /\ last' = Op("CopyAssign", "self", NoPtr)
       ELSE
           LET tmp == CopyCtor_(heap, vec[o])
           IN  /\ vec' = [vec EXCEPT ![v] = tmp.s]
               /\ heap' = ArrayPtrDtor(tmp.h, vec[v].items_)
               /\ last' = Op("CopyAssign", "", NoPtr)

\* SimpleVector& operator=(SimpleVector&& rhs)
MoveAssign(v, o) ==
    /\ vec[v].alive /\ vec[o].alive
    /\ ptr' = ptr
    /\ IF v = o THEN
           /\ UNCHANGED <<heap, vec>>
           /\ last' = Op("MoveAssign", "self", NoPtr)
       ELSE
           /\ heap' = ArrayPtrMoveAssignHeap(heap, vec[v].items_)
           /\ vec' = [vec EXCEPT ![v] = MkVec(vec[o].items_, vec[o].size_, vec[o].capacity_),
                                 ![o] = MkVec(NULL, 0, 0)]
           /\ last' = Op("MoveAssign", IF vec[v].items_ # NULL THEN "release" ELSE "", NoPtr)

\* void swap(SimpleVector& other) noexcept
Swap(v, o) ==
    /\ vec[v].alive /\ vec[o].alive
    /\ vec' = [vec EXCEPT ![v] = vec[o], ![o] = vec[v]]
    /\ heap' = heap
    /\ last' = Op("swap", "", NoPtr)
    /\ ptr' = ptr

\* ~SimpleVector(): the member items_ is destroyed.
Dtor(v) ==
    /\ vec[v].alive
    /\ Commit(v, ArrayPtrDtor(heap, vec[v].items_), NoVec, Op("Dtor", "", NoPtr))

Grew(s0, s1) == IF s1.items_ # s0.items_ THEN "grow" ELSE "fit"

PushBack(v, item) ==
    /\ vec[v].alive
    /\ LET r == PushBack_(heap, vec[v], item)
       IN  Commit(v, r.h, r.s, Op("PushBack", Grew(vec[v], r.s), NoPtr))

\* void PopBack() noexcept; the array must not be empty.  (The kind notes a
\* PopBack that comes right after a PushBack.)
PopBack(v) ==
    /\ vec[v].alive
    /\ vec[v].size_ # 0
    /\ LET r == PopBack_(heap, vec[v])
           undo == IF last.op = "PushBack" THEN "undo-" \o last.kind ELSE ""
       IN  Commit(v, r.h, r.s, Op("PopBack", undo, NoPtr))

\* Insert at pos = begin() + i; pos must lie in [begin(), end()].
Insert(v, i, value, how) ==
    /\ vec[v].alive
    /\ i >= 0 /\ i <= vec[v].size_
    /\ LET r == Insert_(heap, vec[v], i, value, how)
       IN  Commit(v, r.h, r.s,
                  Op("Insert", (IF i = vec[v].size_ THEN "end-" ELSE "mid-") \o Grew(vec[v], r.s), r.ret))

\* Erase at pos = begin() + i; pos must lie in [begin(), end()).  (The kind
\* notes an Erase at the iterator the Insert just before it returned.)
Erase(v, i, mk) ==
    /\ vec[v].alive
    /\ i >= 0 /\ i < vec[v].size_
    /\ LET r == Erase_(heap, vec[v], i, mk)
           undo == IF last.op = "Insert" /\ last.ret = Ptr(vec[v].items_, i) THEN "undo-" ELSE ""
       IN  Commit(v, r.h, r.s, Op("Erase", undo \o (IF i = vec[v].size_ - 1 THEN "last" ELSE "mid"), r.ret))

\* A slot in [from, to) of the block of s holds a value other than Type{}.
Stale(h, s, from, to) == \E k \in from..(to - 1) : ValidSlot(h, s.items_, k) /\ Load(h, s.items_, k) # Default

Resize(v, new_size) ==
    /\ vec[v].alive
    /\ LET r == Resize_(heap, vec[v], new_size)
           kind == IF new_size <= vec[v].size_ THEN "shrink"
                   ELSE IF new_size > vec[v].capacity_ THEN "grow"
                   ELSE IF Stale(heap, vec[v], vec[v].size_, new_size) THEN "fit-stale"
                   ELSE "fit"
       IN  Commit(v, r.h, r.s, Op("Resize", kind, NoPtr))

Reserve(v, new_capacity) ==
    /\ vec[v].alive
    /\ LET r == Reserve_(heap, vec[v], new_capacity)
       IN  Commit(v, r.h, r.s, Op("Reserve", Grew(vec[v], r.s), NoPtr))

\* Variant: Clear gives the buffer back as well.
ClearRelease(v) ==
    /\ vec[v].alive
    /\ Commit(v, ArrayPtrDtor(heap, vec[v].items_), MkVec(NULL, 0, 0), Op("Clear", "", NoPtr))

\* void Clear() noexcept
Clear(v) ==
    /\ vec[v].alive
    /\ Commit(v, heap, [vec[v] EXCEPT !.size_ = 0], Op("Clear", "", NoPtr))

\* PushBack(const Type& item) with item bound to the element items_[j] of the
\* array itself, as in v.PushBack(v[j]).
PushBackRef(v, j, junk) ==
    /\ vec[v].alive
    /\ j >= 0 /\ j < vec[v].size_
    /\ LET r == PushBackRef_(heap, vec[v], j, junk)
       IN  Commit(v, r.h, r.s, Op("PushBack", Grew(vec[v], r.s), NoPtr))

\* Insert(ConstIterator pos, const Type& value) with pos = begin() + i and
\* value bound to the element items_[j] of the array itself, as in
\* v.Insert(v.begin() + i, v[j]).
InsertRef(v, i, j, junk) ==
    /\ vec[v].alive
    /\ i >= 0 /\ i <= vec[v].size_
    /\ j >= 0 /\ j < vec[v].size_
    /\ LET r == InsertRef_(heap, vec[v], i, j, junk)
       IN  Commit(v, r.h, r.s,
                  Op("Insert", (IF i = vec[v].size_ THEN "end-" ELSE "mid-") \o Grew(vec[v], r.s), r.ret))

At(v, index) ==
    /\ vec[v].alive
    /\ LET r == At_(vec[v], index)
       IN  Commit(v, heap, vec[v], Op("At", r.thrown, r.ret))

Equal(v, o) ==
    /\ vec[v].alive /\ vec[o].alive
    /\ UNCHANGED <<heap, vec, ptr>>
    /\ last' = Op("operator==", IF Equal_(heap, vec[v], vec[o]) THEN "true" ELSE "false", NoPtr)

\* The operations that allocate, when the allocation fails: the exception
\* leaves the function.
BadAlloc == Op("bad_alloc", "", NoPtr)

PushBackThrow(v, item) ==
    /\ vec[v].alive
    /\ LET r == PushBackThrow_(heap, vec[v], item)
       IN  r.thrown = "bad_alloc" /\ Commit(v, r.h, r.s, BadAlloc)

InsertThrow(v, i, value, how) ==
    /\ vec[v].alive
    /\ i >= 0 /\ i <= vec[v].size_
    /\ LET r == InsertThrow_(heap, vec[v], i, value, how)
       IN  r.thrown = "bad_alloc" /\ Commit(v, r.h, r.s, BadAlloc)

ResizeThrow(v, new_size) ==
    /\ vec[v].alive
    /\ LET r == ResizeThrow_(heap, vec[v], new_size)
       IN  r.thrown = "bad_alloc" /\ Commit(v, r.h, r.s, BadAlloc)

ReserveThrow(v, new_capacity) ==
    /\ vec[v].alive
    /\ LET r == ReserveThrow_(heap, vec[v], new_capacity)
       IN  r.thrown = "bad_alloc" /\ Commit(v, r.h, r.s, BadAlloc)

CopyAssignThrow(v, o) ==
    /\ vec[v].alive /\ vec[o].alive
    /\ v # o
    /\ LET r == CopyAssignThrow_(heap, vec[v], vec[o])
       IN  r.thrown = "bad_alloc" /\ Commit(v, r.h, r.s, BadAlloc)

\* ---------------------------------------------------------------- ArrayPtr objects
\* The common end of an operation on ArrayPtr objects.
CommitPtr(h, ps, l) ==
    /\ ptr' = ps
    /\ heap' = h
    /\ last' = l
    /\ vec' = vec

\* ArrayPtr() = default
PtrCtor(q) ==
    /\ ~ptr[q].alive
    /\ CommitPtr(heap, [ptr EXCEPT ![q] = MkArrayPtr(NULL)], Op("ArrayPtr()", "", NoPtr))

\* explicit ArrayPtr(size_t size); operator new[] has a block to hand out.
PtrCtorSize(q, size) ==
    /\ ~ptr[q].alive
    /\ \E b \in Blocks : heap[b].st # "live"
    /\ LET r == ArrayPtrNew(heap, size)
       IN  CommitPtr(r.h, [ptr EXCEPT ![q] = MkArrayPtr(r.p)], Op("ArrayPtr(size)", "", NoPtr))

\* explicit ArrayPtr(Type* raw_ptr), given the pointer Release() returned
\* just before.
PtrCtorRaw(q) ==
    /\ ~ptr[q].alive
    /\ last.op = "Release"
    /\ CommitPtr(heap, [ptr EXCEPT ![q] = MkArrayPtr(last.ret.p)], Op("ArrayPtr(raw)", "", NoPtr))

\* ArrayPtr(ArrayPtr&& other)
PtrCtorMove(q, o) ==
    /\ ~ptr[q].alive /\ ptr[o].alive
    /\ LET moved == ptr[o].raw_ptr_
           p1 == [ptr EXCEPT ![o].raw_ptr_ = NULL]
       IN  CommitPtr(heap, [p1 EXCEPT ![q] = MkArrayPtr(moved)], Op("ArrayPtr(move)", "", NoPtr))

\* ArrayPtr& operator=(ArrayPtr&& other); other may be *this.
\*   if (raw_ptr_) { delete[] raw_ptr_; }
\*   raw_ptr_ = std::exchange(other.raw_ptr_, nullptr);
PtrMoveAssign(q, o) ==
    /\ ptr[q].alive /\ ptr[o].alive
    /\ LET h1 == ArrayPtrMoveAssignHeap(heap, ptr[q].raw_ptr_)
           exchanged == ptr[o].raw_ptr_
           p1 == [ptr EXCEPT ![o].raw_ptr_ = NULL]
           p2 == [p1 EXCEPT ![q].raw_ptr_ = exchanged]
       IN  CommitPtr(h1, p2, Op("operator=(move)", IF q = o THEN "self" ELSE "", NoPtr))

\* ~ArrayPtr()
PtrDtor(q) ==
    /\ ptr[q].alive
    /\ CommitPtr(ArrayPtrDtor(heap, ptr[q].raw_ptr_), [ptr EXCEPT ![q] = NoArrayPtr], Op("~ArrayPtr", "", NoPtr))

\* Type* Release() noexcept: the caller receives the pointer.
PtrRelease(q) ==
    /\ ptr[q].alive
    /\ CommitPtr(heap, [ptr EXCEPT ![q].raw_ptr_ = NULL], Op("Release", "", Ptr(ptr[q].raw_ptr_, 0)))

\* Type& operator[](size_t index), written through: ap[index] = x, with
\* index inside the array the object was constructed with.
PtrIndex(q, index, x) ==
    /\ ptr[q].alive /\ ptr[q].raw_ptr_ # NULL
    /\ heap[ptr[q].raw_ptr_].st = "live" => index < Len(heap[ptr[q].raw_ptr_].data)
    /\ CommitPtr(Store(heap, ptr[q].raw_ptr_, index, x), ptr, Op("operator[]", "", Ptr(ptr[q].raw_ptr_, index)))

\* void swap(ArrayPtr& other) noexcept
PtrSwap(q, o) ==
    /\ ptr[q].alive /\ ptr[o].alive
    /\ CommitPtr(heap, [ptr EXCEPT ![q] = ptr[o], ![o] = ptr[q]], Op("ArrayPtr::swap", "", NoPtr))

\* The operation fits the model: no array ends with a capacity above c.
Fits(c) == \A v \in Vecs : vec'[v].capacity_ <= c

\* The operation fits the two-array model: the capacities add up to at most
\* MaxPairCap.
FitsPair == vec'["a"].capacity_ + vec'["b"].capacity_ <= MaxPairCap

\* One array, "a", from construction to destruction.
Next ==
    \/ Ctor("a")
    \/ \E n \in 0..MaxCap : CtorSize("a", n)
    \/ \E n \in 0..MaxCap, x \in Values : CtorFill("a", n, x)
    \/ \E init \in ListsUpTo(MaxCap) : CtorList("a", init)
    \/ \E n \in 0..MaxCap : CtorReserve("a", n)
    \/ Dtor("a")
    \/ \E x \in Values : PushBack("a", x) /\ Fits(MaxCap)
    \/ PopBack("a")
    \/ \E i \in 0..MaxCap, x \in Values, how \in Hows : Insert("a", i, x, how) /\ Fits(MaxCap)
    \/ \E i \in 0..MaxCap, mk \in MoveKinds : Erase("a", i, mk)
    \/ \E n \in 0..MaxCap : Resize("a", n) /\ Fits(MaxCap)
    \/ \E n \in 0..MaxCap : Reserve("a", n)
    \/ Clear("a")

Spec == Init /\ [][Next]_vars

\* Two arrays, "a" and "b", with every operation that involves two objects.
NextPair ==
    \E v \in Vecs :
        \/ Ctor(v)
        \/ \E n \in 0..MaxPairCap : CtorSize(v, n) /\ FitsPair
        \/ \E n \in 0..MaxPairCap, x \in Values : CtorFill(v, n, x) /\ FitsPair
        \/ \E init \in ListsUpTo(MaxPairCap) : CtorList(v, init) /\ FitsPair
        \/ \E n \in 0..MaxPairCap : CtorReserve(v, n) /\ FitsPair
        \/ \E o \in Vecs : CtorCopy(v, o) /\ FitsPair
        \/ \E o \in Vecs : CtorMove(v, o)
        \/ \E o \in Vecs : CopyAssign(v, o) /\ FitsPair
        \/ \E o \in Vecs : MoveAssign(v, o)
        \/ \E o \in Vecs : Swap(v, o)
        \/ Dtor(v)
        \/ \E x \in Values : PushBack(v, x) /\ FitsPair
        \/ PopBack(v)
        \/ \E i \in 0..MaxPairCap, x \in Values, how \in Hows : Insert(v, i, x, how) /\ FitsPair
        \/ \E i \in 0..MaxPairCap, mk \in MoveKinds : Erase(v, i, mk)
        \/ \E n \in 0..MaxPairCap : Resize(v, n) /\ FitsPair
        \/ \E n \in 0..MaxPairCap : Reserve(v, n) /\ FitsPair
        \/ Clear(v)
        \/ \E i \in 0..(MaxPairCap + 1) : At(v, i)
        \/ \E o \in Vecs : Equal(v, o)
        \/ \E x \in Values : PushBackThrow(v, x)
        \/ \E i \in 0..MaxPairCap, x \in Values, how \in Hows : InsertThrow(v, i, x, how)
        \/ \E n \in 0..MaxPairCap : ResizeThrow(v, n)
        \/ \E n \in 0..MaxPairCap : ReserveThrow(v, n)
        \/ \E o \in Vecs : CopyAssignThrow(v, o)

SpecPair == Init /\ [][NextPair]_vars

\* One array, "a", whose PushBack and Insert calls are also given its own
\* elements as arguments.
NextRef ==
    \/ Ctor("a")
    \/ \E init \in ListsUpTo(MaxRefCap) : CtorList("a", init)
    \/ Dtor("a")
    \/ \E x \in Values : PushBack("a", x) /\ Fits(MaxRefCap)
    \/ \E i \in 0..MaxRefCap, x \in Values : Insert("a", i, x, "copy") /\ Fits(MaxRefCap)
    \/ \E j \in 0..MaxRefCap, junk \in Values : PushBackRef("a", j, junk) /\ Fits(MaxRefCap)
    \/ \E i \in 0..MaxRefCap, j \in 0..MaxRefCap, junk \in Values : InsertRef("a", i, j, junk) /\ Fits(MaxRefCap)
    \/ PopBack("a")
    \/ \E n \in 0..MaxRefCap : Reserve("a", n)
    \/ Clear("a")

SpecRef == Init /\ [][NextRef]_vars

\* Two ArrayPtr objects, "p" and "q", used directly.
NextPtr ==
    \E q \in Ptrs :
        \/ PtrCtor(q)
        \/ \E n \in 0..MaxPtrLen : PtrCtorSize(q, n)
        \/ PtrCtorRaw(q)
        \/ \E o \in Ptrs : PtrCtorMove(q, o)
        \/ \E o \in Ptrs : PtrMoveAssign(q, o)
        \/ PtrDtor(q)
        \/ PtrRelease(q)
        \/ \E i \in 0..(MaxPtrLen - 1), x \in Values : PtrIndex(q, i, x)
        \/ \E o \in Ptrs : PtrSwap(q, o)

SpecPtr == Init /\ [][NextPtr]_vars

\* ---------------------------------------------------------------- claims
A == vec["a"]

\* The sequence s with x put before its element of index i (from 0), and
\* with its element of index i taken out.
InsertAt(s, i, x) == SubSeq(s, 1, i) \o <<x>> \o SubSeq(s, i + 1, Len(s))
RemoveAt(s, i) == SubSeq(s, 1, i) \o SubSeq(s, i + 2, Len(s))

\* The smallest power of two that is at least k (0 for k = 0).
Pow2Ceil(k) == IF k = 0 THEN 0 ELSE CHOOSE p \in {2 ^ e : e \in 0..(k + 1)} : p >= k /\ p < 2 * k

\* C2: PushBack or Insert of one element on a full array of capacity c sets
\* the capacity to 1 when c = 0 and to 2*c otherwise, and leaves the capacity
\* alone when size < capacity; so the pushes on a default-constructed array
\* (size 0, capacity 0) keep capacity = the smallest power of two >= size,
\* that is, the capacities 1, 2, 4, 8, ...
GrowthStep ==
    /\ A.size_ = A.capacity_ => A'.capacity_ = (IF A.capacity_ = 0 THEN 1 ELSE 2 * A.capacity_)
    /\ A.size_ < A.capacity_ => A'.capacity_ = A.capacity_
    /\ A'.size_ = A.size_ + 1

C2_Growth ==
    [][ /\ last'.op \in {"PushBack", "Insert"} => GrowthStep
        /\ last'.op = "Ctor" => (A'.size_ = 0 /\ A'.capacity_ = 0)
        /\ (last'.op = "PushBack" /\ A.capacity_ = Pow2Ceil(A.size_)) => A'.capacity_ = Pow2Ceil(A.size_ + 1) ]_vars

C2_Witness == last.op = "PushBack" /\ last.kind = "grow" /\ A.size_ = 3 /\ A.capacity_ = 4

\* C3: Insert(begin() + i, value) with i < size turns the contents s into
\* s[0..i) ++ [value] ++ s[i..|s|), makes the size |s| + 1 and returns the
\* iterator to index i of the buffer the array now owns, with and without
\* growth.
InsertPost(i, x) ==
    /\ A'.size_ = A.size_ + 1
    /\ ElemsOf("a")' = InsertAt(ElemsOf("a"), i, x)
    /\ last'.ret = Ptr(A'.items_, i)
    /\ heap'[A'.items_].st = "live"

C3_Insert ==
    [][ last'.op = "Insert" =>
          \A i \in 0..MaxCap, x \in Values, how \in Hows :
              (i < A.size_ /\ Insert("a", i, x, how)) => InsertPost(i, x) ]_vars

C3_Witness ==
    /\ last.op = "Insert" /\ last.kind = "mid-grow"
    /\ A.size_ = 3 /\ last.ret = Ptr(A.items_, 1)
    /\ ElemsOf("a")[1] # ElemsOf("a")[3]

\* C4: Erase(begin() + i) with i < size turns the contents s into
\* s[0..i) ++ s[i+1..|s|), makes the size |s| - 1, keeps the capacity and
\* returns the iterator to index i, which is end() exactly when the erased
\* element was the last one.
ErasePost(i) ==
    /\ A'.size_ = A.size_ - 1
    /\ ElemsOf("a")' = RemoveAt(ElemsOf("a"), i)
    /\ A'.capacity_ = A.capacity_
    /\ last'.ret = Ptr(A'.items_, i)
    /\ (last'.ret = Ptr(A'.items_, A'.size_)) <=> (i = A.size_ - 1)

C4_Erase ==
    [][ last'.op = "Erase" =>
          \A i \in 0..MaxCap, mk \in MoveKinds : Erase("a", i, mk) => ErasePost(i) ]_vars

C4_Witness ==
    /\ last.op = "Erase" /\ last.kind = "mid"
    /\ A.size_ = 3 /\ last.ret = Ptr(A.items_, 1)
    /\ ElemsOf("a")[2] # ElemsOf("a")[3]

\* C5: from every reachable array and for every position i in [0, size],
\* Insert at i followed by Erase at the iterator Insert returned gives back
\* the original size and the original sequence of elements.
InsertErase(i, x, how, mk) ==
    LET r1 == Insert_(heap, A, i, x, how)
        r2 == Erase_(r1.h, r1.s, r1.ret.i, mk)
    IN  /\ r1.ret.p = r1.s.items_
        /\ r2.s.size_ = A.size_
        /\ Elems(r2.h, r2.s) = ElemsOf("a")

C5_InsertErase ==
    A.alive => \A i \in 0..A.size_, x \in Values, how \in Hows, mk \in MoveKinds : InsertErase(i, x, how, mk)

C5_Witness ==
    /\ last.op = "Erase" /\ last.kind = "undo-mid"
    /\ A.size_ = 3
    /\ ElemsOf("a") = <<0, 1, 1>>

\* C14: in every reachable state, PushBack(x) followed at once by PopBack()
\* gives back the size and the elements [0, size) there were, whether the
\* PushBack grew the buffer or not.
PushPop(x) ==
    LET r1 == PushBack_(heap, A, x)
        r2 == PopBack_(r1.h, r1.s)
    IN  /\ r1.s.size_ = A.size_ + 1
        /\ r2.s.size_ = A.size_
        /\ Elems(r2.h, r2.s) = ElemsOf("a")

C14_PushPop == A.alive => \A x \in Values : PushPop(x)

C14_Witness ==
    /\ last.op = "PopBack" /\ last.kind = "undo-grow"
    /\ A.size_ = 2 /\ A.capacity_ = 4
    /\ ElemsOf("a") = <<0, 1>>

\* C6: Resize(k) with k > size keeps the elements [0, size), makes every
\* element of [size, k) the default value and sets size to k, whether or not
\* k exceeds the capacity and whatever values the slots [size, capacity) held.
ResizePost(k) ==
    /\ A'.size_ = k
    /\ \A j \in 1..A.size_ : ElemsOf("a")'[j] = ElemsOf("a")[j]
    /\ \A j \in (A.size_ + 1)..k : ElemsOf("a")'[j] = Default

C6_Resize ==
    [][ last'.op = "Resize" =>
          \A k \in 0..MaxCap : (k > A.size_ /\ Resize("a", k)) => ResizePost(k) ]_vars

C6_Witness == last.op = "Resize" /\ last.kind = "fit-stale" /\ A.size_ >= 3 /\ ElemsOf("a")[1] # Default

\* C7: Reserve(k) with k > capacity sets the capacity to exactly k and keeps
\* the size and the elements; Reserve(k) with k <= capacity changes nothing,
\* the buffer included.
ReservePost(k) ==
    IF k > A.capacity_
    THEN /\ A'.capacity_ = k
         /\ A'.size_ = A.size_
         /\ ElemsOf("a")' = ElemsOf("a")
    ELSE A' = A /\ heap' = heap

C7_Reserve ==
    [][ last'.op = "Reserve" => \A k \in 0..MaxCap : Reserve("a", k) => ReservePost(k) ]_vars

C7_Witness ==
    /\ last.op = "Reserve" /\ last.kind = "grow"
    /\ A.size_ = 2 /\ A.capacity_ = 3
    /\ ElemsOf("a") = <<1, 0>>

\* C16: SimpleVector(Reserve(n)) has size 0 and capacity n (no buffer when
\* n = 0), and the n PushBack calls that follow keep the capacity at n and
\* the buffer in place.
RECURSIVE PushAll(_, _, _, _)
PushAll(h, s, vals, k) ==
    IF k > Len(vals) THEN [h |-> h, s |-> s]
    ELSE LET r == PushBack_(h, s, vals[k]) IN PushAll(r.h, r.s, vals, k + 1)

ReservedPost(n) ==
    /\ A'.size_ = 0 /\ A'.capacity_ = n
    /\ n = 0 <=> A'.items_ = NULL
    /\ \A k \in 0..n : \A vals \in [1..k -> Values] :
          LET r == PushAll(heap', A', vals, 1)
          IN  /\ r.s.size_ = k /\ r.s.capacity_ = n
              /\ r.s.items_ = A'.items_
              /\ Elems(r.h, r.s) = vals

C16_CtorReserve ==
    [][ last'.op = "CtorReserve" => \A n \in 0..MaxCap : CtorReserve("a", n) => ReservedPost(n) ]_vars

C16_Witness == last.op = "CtorReserve" /\ A.size_ = 0 /\ A.capacity_ = 3 /\ A.items_ # NULL

\* C17: Clear, PopBack, Erase and Resize(n) with n <= capacity keep the
\* capacity and the buffer (begin() is the same address, the block stays
\* allocated), and keep every element that was below the old size, is below
\* the new size and lies before the erased position; Clear leaves size 0.
Kept(upto) ==
    /\ A'.capacity_ = A.capacity_
    /\ A'.items_ = A.items_
    /\ heap'[A.items_].st = heap[A.items_].st
    /\ \A k \in 1..A'.size_ : (k <= A.size_ /\ k <= upto) => ElemsOf("a")'[k] = ElemsOf("a")[k]

C17_Frame ==
    [][ last'.op \in {"Clear", "PopBack", "Erase", "Resize"} =>
          /\ Clear("a") => (Kept(A.size_) /\ A'.size_ = 0)
          /\ PopBack("a") => (Kept(A.size_) /\ A'.size_ = A.size_ - 1)
          /\ \A i \in 0..MaxCap, mk \in MoveKinds : Erase("a", i, mk) => Kept(i)
          /\ \A n \in 0..A.capacity_ : Resize("a", n) => (Kept(A.size_) /\ A'.size_ = n) ]_vars

\* Clear has emptied an array that keeps its four slots and what they held.
C17_Witness ==
    /\ last.op = "Clear"
    /\ A.size_ = 0 /\ A.capacity_ = 4 /\ A.items_ # NULL
    /\ Stale(heap, A, 0, 4)

\* C18: PushBack(value) and Insert(pos, value) by const reference put into
\* the new slot the value the argument had when the call was made, also when
\* the argument is an element of the array itself.
RefArgPost(at, j) == ElemsOf("a")'[at + 1] = ElemsOf("a")[j + 1]

C18_RefArg ==
    [][ last'.op \in {"PushBack", "Insert"} =>
          \A j \in 0..MaxRefCap, junk \in Values :
              /\ PushBackRef("a", j, junk) => RefArgPost(A.size_, j)
              /\ \A i \in 0..MaxRefCap : InsertRef("a", i, j, junk) => RefArgPost(i, j) ]_vars

\* The same for the calls that neither replace the buffer nor shift the
\* element the argument is bound to before it is read (j <= i).
C18_RefArgInPlace ==
    [][ (last'.op \in {"PushBack", "Insert"} /\ A.size_ < A.capacity_) =>
          \A j \in 0..MaxRefCap, junk \in Values :
              /\ PushBackRef("a", j, junk) => RefArgPost(A.size_, j)
              /\ \A i \in j..MaxRefCap : InsertRef("a", i, j, junk) => RefArgPost(i, j) ]_vars

\* C19: in every reachable state capacity_ is the number of slots of the
\* block items_ holds, items_ is nullptr exactly when capacity_ is 0, and no
\* operation has read or written a slot outside an allocated block (such an
\* access is recorded on the heap as "bad").
C19_Buffer ==
    /\ \A v \in Vecs : vec[v].alive =>
          /\ vec[v].items_ = NULL <=> vec[v].capacity_ = 0
          /\ vec[v].items_ # NULL =>
                /\ heap[vec[v].items_].st = "live"
                /\ Len(heap[vec[v].items_].data) = vec[v].capacity_
    /\ \A p \in Addrs : heap[p].st # "bad"

\* Erase has shifted elements down inside a block of five slots.
C19_Witness ==
    /\ last.op = "Erase" /\ last.kind = "mid"
    /\ A.size_ = 4 /\ A.capacity_ = 5
    /\ Len(heap[A.items_].data) = 5

\* ---------------------------------------------------------------- two arrays
Other(v) == IF v = "a" THEN "b" ELSE "a"
MovedFrom_(s) == s = MkVec(NULL, 0, 0)

\* C1: size <= capacity for every array after any sequence of operations,
\* moved-from arrays included.
C1_SizeLeCapacity == \A v \in Vecs : vec[v].size_ <= vec[v].capacity_

C1_Witness ==
    /\ last.op = "CtorMove"
    /\ \E v \in Vecs : /\ MovedFrom_(vec[v])
                       /\ vec[Other(v)].alive
                       /\ vec[Other(v)].size_ = 1 /\ vec[Other(v)].capacity_ = 2

\* The object o and the block it owns are as they were.
Untouched(o) ==
    /\ vec'[o] = vec[o]
    /\ vec[o].items_ # NULL => heap'[vec[o].items_] = heap[vec[o].items_]

\* No two arrays own the same block.
NoSharedBuffer ==
    (vec["a"].alive /\ vec["b"].alive /\ vec["a"].items_ # NULL) => vec["a"].items_ # vec["b"].items_

\* C8: copy construction and copy assignment of B from A give B the size,
\* the capacity and the elements of A and leave A alone; every mutating
\* operation on one array afterwards leaves the other array's size, capacity
\* and elements unchanged (a step either leaves the other array untouched or
\* is no such operation on this one); the two never share a buffer.
CopyPost(v, o) ==
    /\ vec'[v].size_ = vec[o].size_
    /\ vec'[v].capacity_ = vec[o].capacity_
    /\ ElemsOf(v)' = ElemsOf(o)
    /\ Untouched(o)

C8_Copy ==
    [][ /\ NoSharedBuffer'
        /\ last'.op = "CtorCopy" => \A v \in Vecs : CtorCopy(v, Other(v)) => CopyPost(v, Other(v))
        /\ last'.op = "CopyAssign" =>
              \A v \in Vecs : /\ CopyAssign(v, Other(v)) => CopyPost(v, Other(v))
                              /\ CopyAssign(v, v) => (vec' = vec /\ heap' = heap)
        /\ last'.op = "PushBack" => \A v \in Vecs : Untouched(Other(v)) \/ \A x \in Values : ~PushBack(v, x)
        /\ last'.op = "PopBack" => \A v \in Vecs : Untouched(Other(v)) \/ ~PopBack(v)
        /\ last'.op = "Insert" =>
              \A v \in Vecs : Untouched(Other(v)) \/
                  \A i \in 0..MaxPairCap, x \in Values, how \in Hows : ~Insert(v, i, x, how)
        /\ last'.op = "Erase" =>
              \A v \in Vecs : Untouched(Other(v)) \/ \A i \in 0..MaxPairCap, mk \in MoveKinds : ~Erase(v, i, mk)
        /\ last'.op = "Resize" => \A v \in Vecs : Untouched(Other(v)) \/ \A n \in 0..MaxPairCap : ~Resize(v, n)
        /\ last'.op = "Reserve" => \A v \in Vecs : Untouched(Other(v)) \/ \A n \in 0..MaxPairCap : ~Reserve(v, n)
        /\ last'.op = "Clear" => \A v \in Vecs : Untouched(Other(v)) \/ ~Clear(v) ]_vars

C8_Witness ==
    /\ last.op = "CopyAssign" /\ last.kind = ""
    /\ vec["a"].size_ = 1 /\ vec["a"].capacity_ = 1
    /\ vec["b"].size_ = 1 /\ vec["b"].capacity_ = 1
    /\ ElemsOf("a") = <<1>> /\ ElemsOf("b") = <<1>>
    /\ vec["a"].items_ # vec["b"].items_

\* C9: move construction and move assignment of B from a distinct A give B
\* the buffer, size, capacity and elements A had and leave A with size 0,
\* capacity 0 and no buffer; move assignment deallocates the block B owned
\* before, once; PushBack on the moved-from A grows it from capacity 0 to 1.
MovePost(v, o) ==
    /\ vec'[v] = MkVec(vec[o].items_, vec[o].size_, vec[o].capacity_)
    /\ ElemsOf(v)' = ElemsOf(o)
    /\ vec[o].items_ # NULL => heap'[vec[o].items_] = heap[vec[o].items_]
    /\ MovedFrom_(vec'[o])

Released(p) == p # NULL => (heap[p].st = "live" /\ heap'[p] = FreeBlock)

C9_Move ==
    [][ /\ last'.op = "CtorMove" => \A v \in Vecs : CtorMove(v, Other(v)) => MovePost(v, Other(v))
        /\ (last'.op = "MoveAssign" /\ last'.kind # "self") =>
              \A v \in Vecs : MoveAssign(v, Other(v)) => (MovePost(v, Other(v)) /\ Released(vec[v].items_))
        /\ last'.op = "PushBack" =>
              \A v \in Vecs, x \in Values :
                  (MovedFrom_(vec[v]) /\ PushBack(v, x)) =>
                      (vec'[v].size_ = 1 /\ vec'[v].capacity_ = 1 /\ ElemsOf(v)' = <<x>>) ]_vars

C9_Witness ==
    /\ last.op = "MoveAssign" /\ last.kind = "release"
    /\ \E v \in Vecs : /\ MovedFrom_(vec[v])
                       /\ vec[Other(v)].items_ # NULL
                       /\ vec[Other(v)].size_ = 1
                       /\ Cardinality({b \in Blocks : heap[b].st = "live"}) = 1

\* C10: every allocated block is owned by exactly one array (no second
\* owner, no block left behind by growth, assignment or destruction), no
\* block is deallocated twice and no array holds a deallocated block.
Owners(b) == {v \in Vecs : vec[v].alive /\ vec[v].items_ = b}

C10_Ownership ==
    /\ \A b \in Blocks : Cardinality(Owners(b)) <= 1
    /\ \A b \in Blocks : heap[b].st = "live" => Owners(b) # {}
    /\ \A p \in Addrs : heap[p].st # "bad"
    /\ \A v \in Vecs : (vec[v].alive /\ vec[v].items_ # NULL) => heap[vec[v].items_].st = "live"

C10_Witness ==
    /\ last.op = "PushBack" /\ last.kind = "grow"
    /\ vec["a"].alive /\ vec["b"].alive
    /\ \E v \in Vecs : vec[v].size_ = 2 /\ vec[v].capacity_ = 2
    /\ Cardinality({b \in Blocks : heap[b].st = "live"}) = 1

\* C12: in every reachable state of an array (empty and moved-from ones
\* included) At(i) throws out_of_range when i >= size and otherwise returns
\* the element of index i; the call changes neither the array nor the heap.
AtPost(v, i) ==
    /\ vec' = vec /\ heap' = heap
    /\ IF i >= vec[v].size_
       THEN last'.kind = "out_of_range" /\ last'.ret = NoPtr
       ELSE /\ last'.kind = ""
            /\ last'.ret = Ptr(vec[v].items_, i)
            /\ ValidSlot(heap, last'.ret.p, last'.ret.i)
            /\ Load(heap, last'.ret.p, last'.ret.i) = ElemsOf(v)[i + 1]

C12_At ==
    [][ last'.op = "At" =>
          \A v \in Vecs, i \in 0..(MaxPairCap + 1) : At(v, i) => AtPost(v, i) ]_vars

\* At has thrown while one array is in the moved-from state and the other
\* has a slot beyond its size.
C12_Witness ==
    /\ last.op = "At" /\ last.kind = "out_of_range"
    /\ \E v \in Vecs : /\ MovedFrom_(vec[v])
                       /\ vec[Other(v)].alive
                       /\ vec[Other(v)].size_ = 1 /\ vec[Other(v)].capacity_ = 2

\* C13: when the allocation fails in PushBack, Insert, Resize, Reserve or
\* copy assignment, the exception leaves the call and every array (size,
\* capacity, buffer) and the heap (elements, blocks live and free) are as
\* before the call.
ThrowStep ==
    \E v \in Vecs :
        \/ \E x \in Values : PushBackThrow(v, x)
        \/ \E i \in 0..MaxPairCap, x \in Values, how \in Hows : InsertThrow(v, i, x, how)
        \/ \E n \in 0..MaxPairCap : ResizeThrow(v, n)
        \/ \E n \in 0..MaxPairCap : ReserveThrow(v, n)
        \/ \E o \in Vecs : CopyAssignThrow(v, o)

C13_BadAlloc ==
    [][ last'.op = "bad_alloc" => (ThrowStep /\ vec' = vec /\ heap' = heap) ]_vars

\* An allocation has failed while both arrays are full and hold an element.
C13_Witness ==
    /\ last.op = "bad_alloc"
    /\ \A v \in Vecs : vec[v].alive /\ vec[v].size_ = 1 /\ vec[v].capacity_ = 1
    /\ ElemsOf("a") = <<1>>

\* C15: lhs == rhs is true exactly when the two arrays have the same size
\* and equal elements at every index below it, whatever their capacities
\* and the values left in the slots from the size on.
SameElems(v, o) ==
    /\ vec[v].size_ = vec[o].size_
    /\ \A k \in 1..vec[v].size_ : ElemsOf(v)[k] = ElemsOf(o)[k]

C15_Equal ==
    [][ last'.op = "operator==" =>
          \A v, o \in Vecs : Equal(v, o) => (last'.kind = "true" <=> SameElems(v, o)) ]_vars

\* Two empty arrays have compared equal, one without a buffer and one with
\* a buffer of two slots that holds a value left from before.
C15_Witness ==
    /\ last.op = "operator==" /\ last.kind = "true"
    /\ \E v \in Vecs : /\ vec[v].alive /\ vec[v].size_ = 0 /\ vec[v].capacity_ = 0
                       /\ vec[Other(v)].alive
                       /\ vec[Other(v)].size_ = 0 /\ vec[Other(v)].capacity_ = 2
                       /\ Stale(heap, vec[Other(v)], 0, 2)

\* ---------------------------------------------------------------- ArrayPtr
\* C11: for every two ArrayPtr objects a and b, a = std::move(b) deallocates
\* the block a owned, leaves b empty and leaves a empty or owning a live
\* block; no ArrayPtr holds a pointer to a deallocated block.
NoDangling(ps, h) == \A q \in Ptrs : ps[q].alive /\ ps[q].raw_ptr_ # NULL => h[ps[q].raw_ptr_].st = "live"

PtrMoveAssignPost(a, b) ==
    /\ ptr[a].raw_ptr_ # NULL => heap'[ptr[a].raw_ptr_].st # "live"
    /\ ptr'[b].raw_ptr_ = NULL
    /\ ptr'[a].raw_ptr_ = NULL \/ heap'[ptr'[a].raw_ptr_].st = "live"
    /\ NoDangling(ptr', heap')

C11_MoveAssign ==
    [][ last'.op = "operator=(move)" =>
          \A a, b \in Ptrs : PtrMoveAssign(a, b) => PtrMoveAssignPost(a, b) ]_vars

\* The same for two different objects (b is not a), from states in which
\* every pointer held is to a live block no other object holds.
SoleOwners(ps, h) ==
    /\ NoDangling(ps, h)
    /\ \A q, o \in Ptrs : (q # o /\ ps[q].alive /\ ps[o].alive /\ ps[q].raw_ptr_ # NULL) => ps[q].raw_ptr_ # ps[o].raw_ptr_

C11_MoveAssignDistinct ==
    [][ (last'.op = "operator=(move)" /\ SoleOwners(ptr, heap)) =>
          \A a, b \in Ptrs : (a # b /\ PtrMoveAssign(a, b)) => PtrMoveAssignPost(a, b) ]_vars

\* ---------------------------------------------------------------- typing
TypeOK ==
    /\ \A p \in Addrs : heap[p].st \in {"free", "live"}
    /\ \A v \in Vecs : vec[v].items_ \in Addrs /\ vec[v].size_ \in 0..MaxCap /\ vec[v].capacity_ \in 0..MaxCap

====
